---- MODULE Spec2Model ----
(***************************************************************************)
(* Appointment booking backend (backend/server.py).                        *)
(*                                                                         *)
(* The datastore collections users, doctors and appointments are sequences *)
(* in insertion order; a record's id is its position (the code draws a     *)
(* fresh uuid4 per record, so ids are unique and never reused).            *)
(*                                                                         *)
(* Request handlers are coroutines: every `await db...` is a point where   *)
(* another request may run.  book_appointment reads the doctor, reads the  *)
(* appointments and inserts, all three of mutable data, so it is modelled  *)
(* as three steps of a request slot.  analyze_symptoms_with_ai queries the  *)
(* doctors once per recommended specialty, or once in its except branch,   *)
(* so it is one step for the call of the language model and one step per   *)
(* doctors query.  register reads the users by email and inserts, so it   *)
(* is two steps of a request slot.  create_sample_data reads nothing; its  *)
(* seven inserts, each user before the Doctor record that refers to it,    *)
(* are one step.  The other handlers read only data that never changes     *)
(* once written (a user, an appointment's patient_id and doctor_id, a      *)
(* doctor's user_id; no record is ever deleted) before their single write  *)
(* or their response, so each is one step.                                 *)
(***************************************************************************)
EXTENDS Integers, Sequences, FiniteSets

None == "None"

\* ---- bounds of the model ----
MaxAppts == 2        \* appointment records the ledger may hold
MaxDoctors == 2      \* doctor records the directory may hold
MaxInFlight == 2     \* requests running concurrently
MaxUsers == 2        \* users that register
MaxSeedings == 2     \* calls of create-sample-data

\* ---- program constants ----
ListLimit == 100     \* appointments_cursor.to_list(length=100)

\* ---- input values ----
Times == {"T1", "T2"}
SymptomInputs == {"cough"}
Statuses == {"scheduled", "completed", "cancelled", "rescheduled"}
NotesInputs == {None, "n1"}
GeneralMedicine == "General Medicine"
InternalMedicine == "Internal Medicine"
Cardiology == "Cardiology"
EmailInputs == {"a@x.com", "b@x.com"}
PasswordInputs == {"pw", "pw2"}
UserTypeInputs == {"patient", "nurse"}
Slots == 1..MaxInFlight

VARIABLES users, doctors, appointments, req, tri, last
vars == <<users, doctors, appointments, req, tri, last>>

\* hashlib.sha256(password.encode()).hexdigest(): a digest that differs from
\* the password and differs for different passwords.
HashPassword(password) == "sha256(" \o password \o ")"

\* The users collection after five register calls.
SeededUsers ==
    << [email |-> "a@x", user_type |-> "patient",
        password_hash |-> HashPassword("pw")],
       [email |-> "b@x", user_type |-> "patient",
        password_hash |-> HashPassword("pw")],
       [email |-> "c@x", user_type |-> "doctor",
        password_hash |-> HashPassword("pw")],
       [email |-> "d@x", user_type |-> "admin",
        password_hash |-> HashPassword("pw")],
       [email |-> "e@x", user_type |-> "nurse",
        password_hash |-> HashPassword("pw")] >>

UserIds == DOMAIN SeededUsers
\* a user_id that resolves to no user: beyond every id that is given out
MissingUser == Len(SeededUsers) + MaxUsers + 4 * MaxSeedings + 1
UserIdInputs == {3, MissingUser}
DoctorIdInputs == 1..MaxDoctors
ApptIdInputs == 1..MaxAppts

\* no symptom analysis is running
TriIdle == [pc |-> "idle"]

Idle == [pc |-> "idle", current_user |-> 0, doctor_id |-> 0,
         appointment_date |-> None, symptoms |-> None]

NoResponse == [op |-> "none", current_user |-> 0, id |-> 0, code |-> 0,
               result |-> <<>>]

Response(op, u, id, code, result) ==
    [op |-> op, current_user |-> u, id |-> id, code |-> code, result |-> result]

Min(a, b) == IF a < b THEN a ELSE b

\* ---- datastore queries ----

\* db.users.find_one({"id": user_id})
UserExists(user_id) == user_id \in DOMAIN users

\* (mutant) the doctor query without its is_available filter
DoctorExists(doctor_id) == doctor_id \in DOMAIN doctors

\* db.doctors.find_one({"id": doctor_id, "is_available": True})
AvailableDoctor(doctor_id) ==
    /\ doctor_id \in DOMAIN doctors
    /\ doctors[doctor_id].is_available

\* (mutant) the conflict query matching scheduled appointments only
ConflictingScheduledOnly(doctor_id, date) ==
    {i \in DOMAIN appointments :
        /\ appointments[i].doctor_id = doctor_id
        /\ appointments[i].appointment_date = date
        /\ appointments[i].status = "scheduled"}

\* (mutant) the conflict query without its status filter
ConflictingAnyStatus(doctor_id, date) ==
    {i \in DOMAIN appointments :
        /\ appointments[i].doctor_id = doctor_id
        /\ appointments[i].appointment_date = date}

\* db.appointments.find_one({"doctor_id": .., "appointment_date": ..,
\*                           "status": {"$ne": "cancelled"}})
ConflictingAppointments(doctor_id, date) ==
    {i \in DOMAIN appointments :
        /\ appointments[i].doctor_id = doctor_id
        /\ appointments[i].appointment_date = date
        /\ appointments[i].status # "cancelled"}

\* db.doctors.find_one({"user_id": user_id}): the ids it may return, 0 for
\* no match.  The query has no sort, so with several matches any may come.
DoctorOfUser(user_id) ==
    LET found == {d \in DOMAIN doctors : doctors[d].user_id = user_id}
    IN  IF found = {} THEN {0} ELSE found

Init ==
    /\ users = SeededUsers
    /\ doctors = <<>>
    /\ appointments = <<>>
    /\ req = [s \in Slots |-> Idle]
    /\ tri = TriIdle
    /\ last = NoResponse

\* ---- POST /register, POST /login, the bearer-token check ----
JWT_SECRET == "hospital-booking-secret-key"

VerifyPassword(password, password_hash) == HashPassword(password) = password_hash

\* jwt.encode(to_encode, JWT_SECRET, algorithm=JWT_ALGORITHM): the payload
\* and a signature made with the key.  The payload's exp claim, 24 hours
\* after the call, is left out: a token is checked within that time.
JwtEncode(payload, key) == [payload |-> payload, signed_with |-> key]

CreateAccessToken(data) == JwtEncode(data, JWT_SECRET)

\* a token signed with another key, and one of a user who never existed
ForgedToken == JwtEncode([sub |-> 1], "another-key")
StaleToken == CreateAccessToken([sub |-> MissingUser])

\* get_current_user: the user id the token resolves to, 0 for a 401.
\* jwt.decode raises on a signature made with another key.
GetCurrentUser(token) ==
    IF token.signed_with # JWT_SECRET THEN 0
    ELSE IF "sub" \notin DOMAIN token.payload THEN 0
    ELSE IF ~UserExists(token.payload.sub) THEN 0
    ELSE token.payload.sub

\* db.users.find_one({"email": email}): the ids it may return, 0 for no
\* match.  The query has no sort, so with several matches any may come.
UserOfEmail(email) ==
    LET found == {i \in DOMAIN users : users[i].email = email}
    IN  IF found = {} THEN {0} ELSE found

\* register requests between their find_one and their insert_one
Registering == {s \in Slots : req[s].pc = "register_insert"}

\* existing_user is found
EmailTaken(email) == \E i \in DOMAIN users : users[i].email = email

\* the users query of register
RegisterBegin(s, email, password, user_type) ==
    /\ req[s].pc = "idle"
    /\ IF EmailTaken(email)
       THEN /\ last' = Response("register", 0, 0, 400, <<>>)
            /\ UNCHANGED req
       ELSE /\ Len(users) + Cardinality(Registering) < MaxUsers
            /\ req' = [req EXCEPT ![s] = [pc |-> "register_insert", email |-> email,
                                          password |-> password,
                                          user_type |-> user_type]]
            /\ UNCHANGED last
    /\ UNCHANGED <<users, doctors, appointments, tri>>

\* db.users.insert_one, the token and the response
RegisterInsert(s) ==
    /\ req[s].pc = "register_insert"
    /\ users' = Append(users, [email |-> req[s].email,
                               user_type |-> req[s].user_type,
                               password_hash |-> HashPassword(req[s].password)])
    /\ last' = Response("register", 0, Len(users) + 1, 200,
                        <<CreateAccessToken([sub |-> Len(users) + 1])>>)
    /\ req' = [req EXCEPT ![s] = Idle]
    /\ UNCHANGED <<doctors, appointments, tri>>

\* user_data is found and verify_password holds
LoginOk(user_data, password) ==
    /\ user_data # 0
    /\ VerifyPassword(password, users[user_data].password_hash)

Login(email, password) ==
    /\ \E user_data \in UserOfEmail(email) :
          IF LoginOk(user_data, password)
          THEN last' = Response("login", 0, user_data, 200,
                                <<CreateAccessToken([sub |-> user_data])>>)
          ELSE last' = Response("login", 0, 0, 401, <<>>)
    /\ UNCHANGED <<users, doctors, appointments, req, tri>>

\* A request with a bearer token: the dependency get_current_user.
AuthCheck(token) ==
    /\ last' = Response("auth", GetCurrentUser(token), 0,
                        IF GetCurrentUser(token) = 0 THEN 401 ELSE 200, <<>>)
    /\ UNCHANGED <<users, doctors, appointments, req, tri>>

\* ---- POST /create-sample-data ----
SampleUsers ==
    << [email |-> "admin@hospital.com", user_type |-> "admin",
        password_hash |-> HashPassword("admin123")],
       [email |-> "dr.smith@hospital.com", user_type |-> "doctor",
        password_hash |-> HashPassword("doctor123")],
       [email |-> "dr.jones@hospital.com", user_type |-> "doctor",
        password_hash |-> HashPassword("doctor123")],
       [email |-> "dr.brown@hospital.com", user_type |-> "doctor",
        password_hash |-> HashPassword("doctor123")] >>

\* The sample doctors, the k-th one of the k-th doctor user inserted.
SampleDoctors(first_doctor_user) ==
    << [user_id |-> first_doctor_user,
        specializations |-> {Cardiology, InternalMedicine}, is_available |-> TRUE],
       [user_id |-> first_doctor_user + 1,
        specializations |-> {"Dermatology", "Cosmetic Surgery"},
        is_available |-> TRUE],
       [user_id |-> first_doctor_user + 2,
        specializations |-> {"Orthopedics", "Sports Medicine"},
        is_available |-> TRUE] >>

\* The endpoint takes no token and makes no query: seven inserts.
CreateSampleData ==
    /\ Cardinality({i \in DOMAIN users : users[i].email = SampleUsers[1].email})
           < MaxSeedings
    /\ users' = users \o SampleUsers
    /\ doctors' = doctors \o SampleDoctors(Len(users) + 2)
    /\ last' = Response("create_sample_data", 0, 0, 200, <<>>)
    /\ UNCHANGED <<appointments, req, tri>>

\* ---- POST /doctors ----
\* (mutant) create_doctor refusing patients only
MayCreateDoctorStaff(u) == users[u].user_type # "patient"

MayCreateDoctor(u) == users[u].user_type = "admin"

CreateDoctor(u, user_id, specializations) ==
    /\ IF ~MayCreateDoctor(u)
       THEN /\ last' = Response("create_doctor", u, user_id, 403, <<>>)
            /\ UNCHANGED doctors
       ELSE /\ Len(doctors) < MaxDoctors
            /\ doctors' = Append(doctors, [user_id |-> user_id,
                                         specializations |-> specializations,
                                         is_available |-> TRUE])
            /\ last' = Response("create_doctor", u, user_id, 200, <<Len(doctors) + 1>>)
    /\ UNCHANGED <<users, appointments, req, tri>>

\* The availability flag of a doctor record is changed by the administrator
\* directly in the datastore.
SetAvailability(d, b) ==
    /\ d \in DOMAIN doctors
    /\ doctors[d].is_available # b
    /\ doctors' = [doctors EXCEPT ![d].is_available = b]
    /\ UNCHANGED <<users, appointments, req, tri, last>>

\* ---- POST /appointments ----
InFlight == {s \in Slots : req[s].pc # "idle"}

\* (mutant) book without its role check
MayBookAnyRole(u) == u \in DOMAIN users

MayBook(u) == users[u].user_type = "patient"

\* role check, then the doctor query
BookBegin(s, u, d, t, sym) ==
    /\ req[s].pc = "idle"
    /\ IF ~MayBook(u)
       THEN /\ last' = Response("book", u, d, 403, <<>>)
            /\ UNCHANGED req
       ELSE IF ~AvailableDoctor(d)
       THEN /\ last' = Response("book", u, d, 404, <<>>)
            /\ UNCHANGED req
       ELSE /\ Len(appointments) + Cardinality(InFlight) < MaxAppts
            /\ req' = [req EXCEPT ![s] = [pc |-> "book_conflict", current_user |-> u,
                                          doctor_id |-> d, appointment_date |-> t,
                                          symptoms |-> sym]]
            /\ UNCHANGED last
    /\ UNCHANGED <<users, doctors, appointments, tri>>

\* the conflict query
BookConflict(s) ==
    /\ req[s].pc = "book_conflict"
    /\ IF ConflictingAppointments(req[s].doctor_id, req[s].appointment_date) # {}
       THEN /\ last' = Response("book", req[s].current_user, req[s].doctor_id, 400, <<>>)
            /\ req' = [req EXCEPT ![s] = Idle]
       ELSE /\ req' = [req EXCEPT ![s].pc = "book_insert"]
            /\ UNCHANGED last
    /\ UNCHANGED <<users, doctors, appointments, tri>>

\* (mutant) the symptoms stored as the notes as well
NewAppointmentNoted(r) ==
    [patient_id |-> r.current_user, doctor_id |-> r.doctor_id,
     appointment_date |-> r.appointment_date, symptoms |-> r.symptoms,
     status |-> "scheduled", notes |-> r.symptoms,
     created_at |-> Len(appointments) + 1]

\* Appointment(patient_id=current_user.id, doctor_id=.., appointment_date=..,
\* symptoms=..); status and notes take their defaults
NewAppointment(r) ==
    [patient_id |-> r.current_user, doctor_id |-> r.doctor_id,
     appointment_date |-> r.appointment_date, symptoms |-> r.symptoms,
     status |-> "scheduled", notes |-> None,
     created_at |-> Len(appointments) + 1]

\* db.appointments.insert_one and the response
BookInsert(s) ==
    /\ req[s].pc = "book_insert"
    /\ appointments' = Append(appointments, NewAppointment(req[s]))
    /\ last' = Response("book", req[s].current_user, req[s].doctor_id, 200,
                        <<Len(appointments) + 1>>)
    /\ req' = [req EXCEPT ![s] = Idle]
    /\ UNCHANGED <<users, doctors, tri>>

\* ---- PUT /appointments/{appointment_id} ----

\* (mutant) the permission check without the patient's ownership test
AccessDeniedDoctorOnly(u, appointment, doctor_data) ==
    /\ users[u].user_type = "doctor"
    /\ \/ doctor_data = 0
       \/ appointment.doctor_id # doctor_data

\* The permission check of update_appointment: doctor_data is what the
\* doctors query returned for a doctor-role user (0: nothing).
AccessDenied(u, appointment, doctor_data) ==
    \/ /\ users[u].user_type = "patient"
       /\ appointment.patient_id # u
    \/ /\ users[u].user_type = "doctor"
       /\ \/ doctor_data = 0
          \/ appointment.doctor_id # doctor_data

\* (mutant) $set of every field of the request, None included
ApplyUpdateOverwrite(appointment, date, status, notes) ==
    [appointment EXCEPT
        !.appointment_date = date, !.status = status, !.notes = notes]

\* (mutant) the date taken only when the book's conflict query finds the
\* doctor free at that time
ApplyUpdateChecked(appointment, date, status, notes) ==
    [appointment EXCEPT
        !.appointment_date =
            IF date # None /\ ConflictingAppointments(appointment.doctor_id, date) = {}
            THEN date ELSE @,
        !.status = IF status # None THEN status ELSE @,
        !.notes = IF notes # None THEN notes ELSE @]

\* (mutant) cancelled and completed appointments keep their status
ApplyUpdateTerminal(appointment, date, status, notes) ==
    [appointment EXCEPT
        !.appointment_date = IF date # None THEN date ELSE @,
        !.status = IF status # None /\ @ \notin {"cancelled", "completed"}
                   THEN status ELSE @,
        !.notes = IF notes # None THEN notes ELSE @]

\* update_dict = the fields that are not None; {"$set": update_dict}
ApplyUpdate(appointment, date, status, notes) ==
    [appointment EXCEPT
        !.appointment_date = IF date # None THEN date ELSE @,
        !.status = IF status # None THEN status ELSE @,
        !.notes = IF notes # None THEN notes ELSE @]

\* The doctors query is made for a doctor-role user only.
DoctorLookup(u) ==
    IF users[u].user_type = "doctor" THEN DoctorOfUser(u) ELSE {0}

\* (mutant) a doctor without a Doctor record refused before the lookup
UpdateCodeProfileFirst(u, id, doctor_data) ==
    IF users[u].user_type = "doctor" /\ doctor_data = 0 THEN 403
    ELSE IF id \notin DOMAIN appointments THEN 404
    ELSE IF users[u].user_type = "patient" /\ appointments[id].patient_id # u THEN 403
    ELSE IF users[u].user_type = "doctor" /\ appointments[id].doctor_id # doctor_data
    THEN 403
    ELSE 200

\* The outcome of update_appointment: the existence check, then the
\* permission check.
UpdateCode(u, id, doctor_data) ==
    IF id \notin DOMAIN appointments THEN 404
    ELSE IF AccessDenied(u, appointments[id], doctor_data) THEN 403
    ELSE 200

UpdateAppointment(u, id, date, status, notes) ==
    /\ \E doctor_data \in DoctorLookup(u) :
          /\ last' = Response("update", u, id, UpdateCode(u, id, doctor_data), <<>>)
          /\ IF UpdateCode(u, id, doctor_data) = 200
             THEN appointments' = [appointments EXCEPT
                                      ![id] = ApplyUpdate(@, date, status, notes)]
             ELSE UNCHANGED appointments
    /\ UNCHANGED <<users, doctors, req, tri>>

\* ---- GET /appointments ----
ApptIds == [i \in 1..Len(appointments) |-> i]

\* (mutant) the find filter of the admin branch taken for a doctor too
SelectedPatientOrAll(u, doctor_data) ==
    IF users[u].user_type = "patient"
    THEN SelectSeq([i \in 1..Len(appointments) |-> i],
                   LAMBDA i : appointments[i].patient_id = u)
    ELSE [i \in 1..Len(appointments) |-> i]

\* The find filter chosen by the caller's role.
Selected(u, doctor_data) ==
    IF users[u].user_type = "patient"
    THEN SelectSeq(ApptIds, LAMBDA i : appointments[i].patient_id = u)
    ELSE IF users[u].user_type = "doctor"
    THEN SelectSeq(ApptIds, LAMBDA i : appointments[i].doctor_id = doctor_data)
    ELSE ApptIds

\* appointments_cursor.to_list(length=100)
ToList(seq, length) == SubSeq(seq, 1, Min(Len(seq), length))

\* patient_data and doctor_user_data are both found
Resolved(i) ==
    /\ UserExists(appointments[i].patient_id)
    /\ appointments[i].doctor_id \in DOMAIN doctors
    /\ UserExists(doctors[appointments[i].doctor_id].user_id)

ListResult(u, doctor_data) ==
    IF users[u].user_type = "doctor" /\ doctor_data = 0
    THEN <<>>
    ELSE SelectSeq(ToList(Selected(u, doctor_data), ListLimit), Resolved)

GetAppointments(u) ==
    /\ \E doctor_data \in DoctorLookup(u) :
          last' = Response("list", u, 0, 200, ListResult(u, doctor_data))
    /\ UNCHANGED <<users, doctors, appointments, req, tri>>

\* ---- POST /analyze-symptoms ----
MayAnalyze(u) == users[u].user_type \in {"patient", "admin"}

SpecialtyLimit == 3  \* doctors_cursor.to_list(length=3)
BasicLimit == 5      \* doctors_cursor.to_list(length=5)

DefaultUrgency == "Medium"
DefaultAnalysis == "Symptom analysis completed"
DefaultNotes == "Please consult with a healthcare professional."
Disclaimer == "Please consult with a healthcare professional for proper diagnosis."
BasicAnalysis == "Basic symptom analysis - AI service temporarily unavailable"
BasicSpecialties == <<GeneralMedicine, InternalMedicine>>

\* JSON values: a string, a list of strings, null, an object (a function from
\* its keys to values), an array at the top level.
JStr(str) == [t |-> "str", v |-> str]
JList(seq) == [t |-> "list", v |-> seq]
JNull == [t |-> "null"]
JObject(items) == [t |-> "object", items |-> items]
JArray == [t |-> "array"]

\* Answers of the language model.
PlainText == "You should rest. See a doctor if it gets worse."
FullJson ==
    "{\"analysis\": \"a1\", \"recommended_specialties\": [\"Cardiology\", \"General Medicine\"], \"urgency_level\": \"High\", \"additional_notes\": \"n1\"}"
BareJson == "{\"recommended_specialties\": [\"General Medicine\"]}"
RepeatJson ==
    "{\"recommended_specialties\": [\"Cardiology\", \"Cardiology\"], \"urgency_level\": \"Low\"}"
EmptyJson == "{}"
ArrayJson == "[\"Cardiology\"]"
NullListJson == "{\"analysis\": \"a1\", \"recommended_specialties\": null}"
NullUrgencyJson ==
    "{\"recommended_specialties\": [\"General Medicine\"], \"urgency_level\": null}"
NullNotesJson == "{\"recommended_specialties\": [], \"additional_notes\": null}"
LlmTexts == {PlainText, FullJson, BareJson, RepeatJson, EmptyJson, ArrayJson,
             NullListJson, NullUrgencyJson, NullNotesJson}

\* chat.send_message raises (network, authentication, timeout) or returns
\* a text.
LlmRaises == [raised |-> TRUE, text |-> ""]
LlmReturns(text) == [raised |-> FALSE, text |-> text]
LlmOutcomes == {LlmRaises} \cup {LlmReturns(text) : text \in LlmTexts}

\* json.loads on the answers above: the value, or no value for a text that
\* is not JSON.
JsonLoads(text) ==
    CASE text = FullJson ->
           [ok |-> TRUE,
            value |-> JObject([analysis |-> JStr("a1"),
                               recommended_specialties |->
                                   JList(<<Cardiology, GeneralMedicine>>),
                               urgency_level |-> JStr("High"),
                               additional_notes |-> JStr("n1")])]
      [] text = BareJson ->
           [ok |-> TRUE,
            value |-> JObject([recommended_specialties |->
                                   JList(<<GeneralMedicine>>)])]
      [] text = RepeatJson ->
           [ok |-> TRUE,
            value |-> JObject([recommended_specialties |->
                                   JList(<<Cardiology, Cardiology>>),
                               urgency_level |-> JStr("Low")])]
      [] text = EmptyJson -> [ok |-> TRUE, value |-> JObject(<<>>)]
      [] text = ArrayJson -> [ok |-> TRUE, value |-> JArray]
      [] text = NullListJson ->
           [ok |-> TRUE,
            value |-> JObject([analysis |-> JStr("a1"),
                               recommended_specialties |-> JNull])]
      [] text = NullUrgencyJson ->
           [ok |-> TRUE,
            value |-> JObject([recommended_specialties |->
                                   JList(<<GeneralMedicine>>),
                               urgency_level |-> JNull])]
      [] text = NullNotesJson ->
           [ok |-> TRUE,
            value |-> JObject([recommended_specialties |-> JList(<<>>),
                               additional_notes |-> JNull])]
      [] OTHER -> [ok |-> FALSE]

\* (mutant) the fallback dict with the specialties of the except branch
AiDataBasicSpecialties(ai_response) ==
    LET parsed == JsonLoads(ai_response)
    IN  IF parsed.ok
        THEN parsed.value
        ELSE JObject([analysis |-> JStr(ai_response),
                      recommended_specialties |-> JList(BasicSpecialties),
                      urgency_level |-> JStr("Medium"),
                      additional_notes |-> JStr(Disclaimer)])

\* ai_data: the parsed answer, or the dict built when json.loads raises
AiData(ai_response) ==
    LET parsed == JsonLoads(ai_response)
    IN  IF parsed.ok
        THEN parsed.value
        ELSE JObject([analysis |-> JStr(ai_response),
                      recommended_specialties |-> JList(<<GeneralMedicine>>),
                      urgency_level |-> JStr("Medium"),
                      additional_notes |-> JStr(Disclaimer)])

\* (mutant) a null taken as a missing key: ai_data.get(key) or default
GetOrDefault(ai_data, key, default) ==
    IF key \in DOMAIN ai_data.items /\ ai_data.items[key].t # "null"
    THEN ai_data.items[key] ELSE default

\* ai_data.get(key, default)
Get(ai_data, key, default) ==
    IF key \in DOMAIN ai_data.items THEN ai_data.items[key] ELSE default

DoctorIds == [d \in 1..Len(doctors) |-> d]

DoctorResponse(d) ==
    [id |-> d, specializations |-> doctors[d].specializations,
     is_available |-> doctors[d].is_available]

DoctorRecommendation(d, match_reason, urgency_level) ==
    [doctor |-> DoctorResponse(d), match_reason |-> match_reason,
     urgency_level |-> urgency_level]

\* (mutant) the doctors found, their user found or not
JoinedAll(seq) == seq

\* user_data is found
Joined(seq) == SelectSeq(seq, LAMBDA d : UserExists(doctors[d].user_id))

\* (mutant) the limit counted over the doctors whose user is found
SpecialtyDoctorsResolved(specialty) ==
    ToList(SelectSeq(DoctorIds,
                     LAMBDA d : /\ specialty \in doctors[d].specializations
                                /\ doctors[d].is_available
                                /\ UserExists(doctors[d].user_id)),
           SpecialtyLimit)

\* (mutant) the specialty query without its limit
SpecialtyDoctorsUnlimited(specialty) ==
    SelectSeq(DoctorIds, LAMBDA d : /\ specialty \in doctors[d].specializations
                                    /\ doctors[d].is_available)

\* db.doctors.find({"specializations": {"$in": [specialty]},
\* "is_available": True}).to_list(length=3)
SpecialtyDoctors(specialty) ==
    ToList(SelectSeq(DoctorIds,
                     LAMBDA d : /\ specialty \in doctors[d].specializations
                                /\ doctors[d].is_available),
           SpecialtyLimit)

\* (mutant) the basic query without the availability filter
BasicDoctorsAnyAvailability ==
    ToList(SelectSeq(DoctorIds,
                     LAMBDA d : doctors[d].specializations
                                    \cap {GeneralMedicine, InternalMedicine} # {}),
           BasicLimit)

\* db.doctors.find({"specializations": {"$in": basic_specialties},
\* "is_available": True}).to_list(length=5)
BasicDoctors ==
    ToList(SelectSeq(DoctorIds,
                     LAMBDA d : /\ doctors[d].specializations
                                    \cap {GeneralMedicine, InternalMedicine} # {}
                                /\ doctors[d].is_available),
           BasicLimit)

\* (mutant) a doctor already recommended is not recommended again
ExtendOnce(recommended_doctors, recommendations) ==
    recommended_doctors \o
        SelectSeq(recommendations,
                  LAMBDA r : \A i \in DOMAIN recommended_doctors :
                                recommended_doctors[i].doctor.id # r.doctor.id)

\* recommended_doctors.append(recommendation), for each doctor of a query
Extend(recommended_doctors, recommendations) ==
    recommended_doctors \o recommendations

TriMatch(u, ai_data) ==
    [pc |-> "match", current_user |-> u, ai_data |-> ai_data, k |-> 1,
     recommended_doctors |-> <<>>]

TriBasic(u) == [pc |-> "basic", current_user |-> u]

\* (mutant) no except branch: the exception leaves the handler
OnExceptionUncaught(u) ==
    /\ tri' = TriIdle
    /\ last' = Response("analyze", u, 0, 500, <<>>)

\* except Exception: the next database call is the basic doctors query
OnException(u) ==
    /\ tri' = TriBasic(u)
    /\ UNCHANGED last

\* return SymptomAnalysisResponse(...) of the try block; a field that is not
\* a string fails validation
Return(u, ai_data, recommended_doctors) ==
    LET analysis == Get(ai_data, "analysis", JStr(DefaultAnalysis))
        urgency_level == Get(ai_data, "urgency_level", JStr(DefaultUrgency))
        additional_notes == Get(ai_data, "additional_notes", JStr(DefaultNotes))
    IN  IF analysis.t # "str" \/ urgency_level.t # "str" \/ additional_notes.t # "str"
        THEN OnException(u)
        ELSE /\ last' = Response("analyze", u, 0, 200,
                   [analysis |-> analysis.v,
                    recommended_specialties |->
                        Get(ai_data, "recommended_specialties", JList(<<>>)).v,
                    recommended_doctors |-> recommended_doctors,
                    urgency_level |-> urgency_level.v,
                    additional_notes |-> additional_notes.v])
             /\ tri' = TriIdle

\* The role check, the call of the language model and the parse of its
\* answer (the symptoms text goes into the prompt only).
AnalyzeSymptoms(u, outcome) ==
    /\ tri.pc = "idle"
    /\ IF ~MayAnalyze(u)
       THEN /\ last' = Response("analyze", u, 0, 403, <<>>)
            /\ UNCHANGED tri
       ELSE IF outcome.raised
       THEN OnException(u)
       ELSE LET ai_data == AiData(outcome.text)
            IN  IF ai_data.t # "object"
                THEN OnException(u)
                ELSE IF Get(ai_data, "recommended_specialties", JList(<<>>)).t # "list"
                THEN OnException(u)
                ELSE IF Get(ai_data, "recommended_specialties", JList(<<>>)).v = <<>>
                THEN Return(u, ai_data, <<>>)
                ELSE /\ tri' = TriMatch(u, ai_data)
                     /\ UNCHANGED last
    /\ UNCHANGED <<users, doctors, appointments, req>>

\* One round of the loop over the recommended specialties: the doctors query
\* and the user of each doctor found; after the last round, the response.
MatchSpecialty ==
    /\ tri.pc = "match"
    /\ LET specialty == Get(tri.ai_data, "recommended_specialties", JList(<<>>)).v[tri.k]
           urgency_level == Get(tri.ai_data, "urgency_level", JStr(DefaultUrgency))
           found == Joined(SpecialtyDoctors(specialty))
           recommended_doctors ==
               Extend(tri.recommended_doctors,
                      [i \in 1..Len(found) |->
                          DoctorRecommendation(found[i], "Specialized in " \o specialty,
                                               urgency_level.v)])
       IN  IF found # <<>> /\ urgency_level.t # "str"
           THEN OnException(tri.current_user)
           ELSE IF tri.k < Len(Get(tri.ai_data, "recommended_specialties", JList(<<>>)).v)
           THEN /\ tri' = [tri EXCEPT !.k = @ + 1,
                                      !.recommended_doctors = recommended_doctors]
                /\ UNCHANGED last
           ELSE Return(tri.current_user, tri.ai_data, recommended_doctors)
    /\ UNCHANGED <<users, doctors, appointments, req>>

\* The except branch: the basic doctors query and the fixed response.
BasicMatching ==
    /\ tri.pc = "basic"
    /\ LET found == Joined(BasicDoctors)
       IN  last' = Response("analyze", tri.current_user, 0, 200,
                   [analysis |-> BasicAnalysis,
                    recommended_specialties |-> BasicSpecialties,
                    recommended_doctors |->
                        [i \in 1..Len(found) |->
                            DoctorRecommendation(found[i], "General consultation",
                                                 "Medium")],
                    urgency_level |-> "Medium",
                    additional_notes |-> Disclaimer])
    /\ tri' = TriIdle
    /\ UNCHANGED <<users, doctors, appointments, req>>

\* ---- specifications ----

\* No request is between two of its database calls.
Quiet ==
    /\ \A s \in Slots : req[s].pc = "idle"
    /\ tri.pc = "idle"

\* Booking under concurrency: every request slot runs a book of a patient or
\* of a doctor-role user, interleaved at each database call with the other
\* slots, with the administrator's create-doctor and cancellations and with
\* changes of a doctor's availability.
BookUsers == {1, 3}

Next ==
    \/ CreateDoctor(4, 3, {GeneralMedicine})
    \/ \E d \in DoctorIdInputs, b \in BOOLEAN : SetAvailability(d, b)
    \/ \E s \in Slots, u \in BookUsers, d \in DoctorIdInputs,
          sym \in SymptomInputs : BookBegin(s, u, d, "T1", sym)
    \/ \E s \in Slots : BookConflict(s)
    \/ \E s \in Slots : BookInsert(s)
    \/ \E id \in ApptIdInputs :
          UpdateAppointment(4, id, None, "cancelled", None)

Spec == Init /\ [][Next]_vars

\* Booking one request at a time: a patient books any doctor at any time
\* while the administrator cancels or completes appointments and doctors
\* become unavailable.
NextSeq ==
    \/ Quiet /\ CreateDoctor(4, 3, {GeneralMedicine})
    \/ Quiet /\ \E d \in DoctorIdInputs, b \in BOOLEAN : SetAvailability(d, b)
    \/ \E d \in DoctorIdInputs, t \in Times, sym \in SymptomInputs :
          Quiet /\ BookBegin(1, 1, d, t, sym)
    \/ BookConflict(1)
    \/ BookInsert(1)
    \/ Quiet /\ \E id \in ApptIdInputs, status \in {"cancelled", "completed"} :
          UpdateAppointment(4, id, None, status, None)

SpecSeq == Init /\ [][NextSeq]_vars

\* Partial updates: patient 1 books the first doctor, and the two patients
\* send updates of the date, the status and the notes of the appointments,
\* one request at a time.
NextUpdate ==
    \/ Quiet /\ Len(doctors) = 0 /\ CreateDoctor(4, 3, {GeneralMedicine})
    \/ \E t \in Times, sym \in SymptomInputs : Quiet /\ BookBegin(1, 1, 1, t, sym)
    \/ BookConflict(1)
    \/ BookInsert(1)
    \/ Quiet /\ \E u \in {1, 2}, id \in ApptIdInputs, date \in {None, "T2"},
                   status \in {None, "cancelled", "scheduled"}, notes \in NotesInputs :
          UpdateAppointment(u, id, date, status, notes)

SpecUpdate == Init /\ [][NextUpdate]_vars

\* Status changes: patient 1 books the first doctor, and the
\* owner and the administrator set the status of the appointments to every
\* status, one request at a time.
NextStatus ==
    \/ Quiet /\ Len(doctors) = 0 /\ CreateDoctor(4, 3, {GeneralMedicine})
    \/ \E t \in Times, sym \in SymptomInputs : Quiet /\ BookBegin(1, 1, 1, t, sym)
    \/ BookConflict(1)
    \/ BookInsert(1)
    \/ Quiet /\ \E u \in {1, 4}, id \in ApptIdInputs, status \in Statuses :
          UpdateAppointment(u, id, None, status, None)

SpecStatus == Init /\ [][NextStatus]_vars

\* Doctor directories that create_doctor calls of the administrator build:
\* one doctor user with several Doctor records, and a record whose user_id
\* is no user's id.
SampleDirectory ==
    << [user_id |-> 3, specializations |-> {Cardiology, GeneralMedicine},
        is_available |-> TRUE],
       [user_id |-> MissingUser, specializations |-> {Cardiology, GeneralMedicine},
        is_available |-> TRUE],
       [user_id |-> 3, specializations |-> {InternalMedicine}, is_available |-> TRUE],
       [user_id |-> 3, specializations |-> {GeneralMedicine}, is_available |-> TRUE],
       [user_id |-> 3, specializations |-> {Cardiology, GeneralMedicine},
        is_available |-> TRUE],
       [user_id |-> 3, specializations |-> {GeneralMedicine, InternalMedicine},
        is_available |-> TRUE],
       [user_id |-> 3, specializations |-> {Cardiology, InternalMedicine},
        is_available |-> TRUE] >>

InitTriage ==
    /\ users = SeededUsers
    /\ doctors \in {SubSeq(SampleDirectory, 1, n) : n \in 0..Len(SampleDirectory)}
    /\ appointments = <<>>
    /\ req = [s \in Slots |-> Idle]
    /\ tri = TriIdle
    /\ last = NoResponse

\* Symptom analysis: a patient's analysis runs over a directory while the
\* administrator adds doctors and the availability of the first doctors
\* changes between its database calls.
NextTriage ==
    \/ \E user_id \in UserIdInputs,
          specializations \in {{GeneralMedicine}, {Cardiology, InternalMedicine}} :
          CreateDoctor(4, user_id, specializations)
    \/ \E d \in DoctorIdInputs, b \in BOOLEAN : SetAvailability(d, b)
    \/ \E outcome \in LlmOutcomes : AnalyzeSymptoms(1, outcome)
    \/ MatchSpecialty
    \/ BasicMatching

SpecTriage == InitTriage /\ [][NextTriage]_vars

\* The coroutine of a request is resumed when its database call or its call
\* of the language model has answered.
SpecTriageLive ==
    SpecTriage /\ WF_vars(MatchSpecialty) /\ WF_vars(BasicMatching)

\* Symptom analysis of answers that parse as JSON, of every shape, over a
\* directory in which the availability of the first doctors changes.
JsonTexts == {text \in LlmTexts : JsonLoads(text).ok}

NextShape ==
    \/ \E d \in DoctorIdInputs, b \in BOOLEAN : SetAvailability(d, b)
    \/ \E text \in JsonTexts : AnalyzeSymptoms(1, LlmReturns(text))
    \/ MatchSpecialty
    \/ BasicMatching

SpecShape == InitTriage /\ [][NextShape]_vars

\* Ledgers that a patient's bookings of the first doctor build, each booking
\* made after the one before was cancelled: n appointments, every third one
\* of the second patient and, when broken, every second one with the second
\* doctor.
SampleLedger(n, broken) ==
    [i \in 1..n |->
        [patient_id |-> IF i % 3 = 0 THEN 2 ELSE 1,
         doctor_id |-> IF broken /\ i % 2 = 0 THEN 2 ELSE 1,
         appointment_date |-> "T1", symptoms |-> "cough",
         status |-> IF i < n THEN "cancelled" ELSE "scheduled",
         notes |-> None, created_at |-> i]]

\* The directory holds the doctor user's record and a record whose user_id
\* is no user's id.
InitList ==
    /\ users = SeededUsers
    /\ doctors = SubSeq(SampleDirectory, 1, 2)
    /\ appointments \in {SampleLedger(n, broken) :
                             n \in 0..(ListLimit + 1), broken \in BOOLEAN}
    /\ req = [s \in Slots |-> Idle]
    /\ tri = TriIdle
    /\ last = NoResponse

\* Listing: every user lists the appointments.
NextList == \E u \in UserIds : GetAppointments(u)

SpecList == InitList /\ [][NextList]_vars

\* Role gates: every user calls the three role-gated operations, one request
\* at a time.
NextGate ==
    \/ Quiet /\ \E u \in UserIds, user_id \in UserIdInputs :
          CreateDoctor(u, user_id, {GeneralMedicine})
    \/ \E u \in UserIds, d \in DoctorIdInputs, sym \in SymptomInputs :
          Quiet /\ BookBegin(1, u, d, "T1", sym)
    \/ BookConflict(1)
    \/ BookInsert(1)
    \/ Quiet /\ \E u \in UserIds, outcome \in {LlmRaises, LlmReturns(BareJson)} :
          AnalyzeSymptoms(u, outcome)
    \/ MatchSpecialty
    \/ BasicMatching

SpecGate == Init /\ [][NextGate]_vars

\* Access to appointments: the two patients book, and every user lists and
\* updates, one request at a time.
NextAccess ==
    \/ Quiet /\ \E user_id \in UserIdInputs :
          CreateDoctor(4, user_id, {GeneralMedicine})
    \/ \E u \in {1, 2}, d \in DoctorIdInputs, sym \in SymptomInputs :
          Quiet /\ BookBegin(1, u, d, "T1", sym)
    \/ BookConflict(1)
    \/ BookInsert(1)
    \/ Quiet /\ \E u \in UserIds, id \in ApptIdInputs :
          UpdateAppointment(u, id, None, "cancelled", None)
    \/ Quiet /\ \E u \in UserIds : GetAppointments(u)

SpecAccess == Init /\ [][NextAccess]_vars

\* Accounts: users register concurrently, each request interleaved at its
\* two database calls with the others, log in and present tokens, while the
\* sample data is created.
InitAuth ==
    /\ users = <<>>
    /\ doctors = <<>>
    /\ appointments = <<>>
    /\ req = [s \in Slots |-> Idle]
    /\ tri = TriIdle
    /\ last = NoResponse

\* the tokens a client holds or makes up
TokenInputs ==
    {ForgedToken, StaleToken}
        \cup (IF last.op \in {"register", "login"} /\ last.code = 200
              THEN {last.result[1]} ELSE {})

NextAuth ==
    \/ \E s \in Slots, email \in EmailInputs, password \in PasswordInputs,
          user_type \in UserTypeInputs :
          RegisterBegin(s, email, password, user_type)
    \/ \E s \in Slots : RegisterInsert(s)
    \/ \E email \in EmailInputs, password \in PasswordInputs : Login(email, password)
    \/ \E token \in TokenInputs : AuthCheck(token)
    \/ CreateSampleData

SpecAuth == InitAuth /\ [][NextAuth]_vars

\* ---- claims ----

\* The non-cancelled appointments that hold the slot (doctor d, time t),
\* written out from the ledger.
Holders(d, t) ==
    {i \in DOMAIN appointments :
        /\ appointments[i].doctor_id = d
        /\ appointments[i].appointment_date = t
        /\ appointments[i].status # "cancelled"}

\* C1: slot uniqueness: no doctor has two appointments with status other
\* than cancelled that share the same appointment_date.
C1_SlotUniqueness ==
    \A i, j \in DOMAIN appointments :
        (/\ i # j
         /\ appointments[i].doctor_id = appointments[j].doctor_id
         /\ appointments[i].appointment_date = appointments[j].appointment_date
         /\ appointments[i].status # "cancelled")
        => appointments[j].status = "cancelled"

\* C2: the conflict check and the insert of book are one atomic unit: two
\* concurrent book requests for the same (doctor, time) are never both past
\* the conflict check with their inserts still to come, so at most one of
\* them succeeds.
C2_CheckInsertAtomic ==
    \A s1, s2 \in Slots :
        (/\ s1 # s2
         /\ req[s1].pc = "book_insert"
         /\ req[s2].pc = "book_insert"
         /\ req[s1].doctor_id = req[s2].doctor_id)
        => req[s1].appointment_date # req[s2].appointment_date

\* C3: booking (D, T) when the slot is free passes the conflict check and
\* the insert returns 200 and adds the appointment; booking (D, T) while a
\* non-cancelled appointment holds it returns 400 and adds no record.
C3_BookTwice ==
    [][\A s \in Slots :
         /\ (BookConflict(s) /\ Holders(req[s].doctor_id, req[s].appointment_date) # {})
              => /\ last'.op = "book"
                 /\ last'.code = 400
                 /\ last'.current_user = req[s].current_user
                 /\ appointments' = appointments
                 /\ req'[s].pc = "idle"
         /\ (BookConflict(s) /\ Holders(req[s].doctor_id, req[s].appointment_date) = {})
              => /\ req'[s].pc = "book_insert"
                 /\ last' = last
         /\ BookInsert(s)
              => /\ last'.code = 200
                 /\ Len(appointments') = Len(appointments) + 1
                 /\ appointments'[Len(appointments')].doctor_id = req[s].doctor_id
                 /\ appointments'[Len(appointments')].appointment_date
                        = req[s].appointment_date
                 /\ appointments'[Len(appointments')].status = "scheduled"
      ]_vars

\* C3 witness: a patient who holds a non-cancelled appointment with a doctor
\* has just been refused with 400 on that doctor, the ledger still holding
\* that single appointment.
C3_Witness ==
    /\ last.op = "book"
    /\ last.code = 400
    /\ Len(appointments) = 1
    /\ appointments[1].doctor_id = last.id
    /\ appointments[1].patient_id = last.current_user
    /\ appointments[1].status = "scheduled"
    /\ \A s \in Slots : req[s].pc = "idle"

\* C4: cancelled appointments do not block a slot: a book of (D, T) whose
\* slot is held by cancelled appointments only passes the conflict check, and
\* its insert returns 200 with a new scheduled appointment at (D, T).
C4_CancelledDoNotBlock ==
    [][\A s \in Slots :
         LET d == req[s].doctor_id
             t == req[s].appointment_date
             cancelled == {i \in DOMAIN appointments :
                              /\ appointments[i].doctor_id = d
                              /\ appointments[i].appointment_date = t
                              /\ appointments[i].status = "cancelled"}
         IN  /\ (BookConflict(s) /\ cancelled # {} /\ Holders(d, t) = {})
                  => req'[s].pc = "book_insert"
             /\ (BookInsert(s) /\ cancelled # {})
                  => /\ last'.op = "book"
                     /\ last'.code = 200
                     /\ last'.result = <<Len(appointments) + 1>>
                     /\ Len(appointments') = Len(appointments) + 1
                     /\ appointments'[Len(appointments')].doctor_id = d
                     /\ appointments'[Len(appointments')].appointment_date = t
                     /\ appointments'[Len(appointments')].status # "cancelled"
                     /\ \A i \in cancelled : appointments'[i] = appointments[i]
      ]_vars

\* C4 witness: the last book returned 200 with appointment j, and an earlier
\* cancelled appointment of the same doctor and time is in the ledger.
C4_Witness ==
    /\ last.op = "book"
    /\ last.code = 200
    /\ \E i, j \in DOMAIN appointments :
          /\ i < j
          /\ last.result = <<j>>
          /\ appointments[i].doctor_id = appointments[j].doctor_id
          /\ appointments[i].appointment_date = appointments[j].appointment_date
          /\ appointments[i].status = "cancelled"
          /\ appointments[j].status = "scheduled"

\* C5: a book request by a patient whose doctor_id resolves to no Doctor or
\* to a Doctor with is_available = false returns 404 and inserts nothing,
\* whatever appointments hold that doctor's slots (it is never a 400).
C5_DoctorUnavailable ==
    [][\A u \in UserIds, d \in DoctorIdInputs :
         (/\ users[u].user_type = "patient"
          /\ (d \notin DOMAIN doctors \/ ~doctors[d].is_available))
         => \A s \in Slots, t \in Times, sym \in SymptomInputs :
               BookBegin(s, u, d, t, sym)
               => /\ last' = Response("book", u, d, 404, <<>>)
                  /\ appointments' = appointments
                  /\ req' = req
      ]_vars

\* C5 witness: a patient has just got 404 for a doctor who is in the
\* directory, unavailable, and holds a non-cancelled appointment.
C5_Witness ==
    /\ last.op = "book"
    /\ last.code = 404
    /\ last.id \in DOMAIN doctors
    /\ ~doctors[last.id].is_available
    /\ \E i \in DOMAIN appointments :
          /\ appointments[i].doctor_id = last.id
          /\ appointments[i].status # "cancelled"

\* C6: role ownership: every appointment, and every book request past its
\* doctor check, has a patient_id of an existing user of role patient and a
\* doctor_id of an existing Doctor record; a book request passes its doctor
\* check only when that Doctor's is_available is true; and an appointment is
\* added only by the insert of such a request, with its patient and doctor.
C6_Refs(r) ==
    /\ r.patient_id \in DOMAIN users
    /\ users[r.patient_id].user_type = "patient"
    /\ r.doctor_id \in DOMAIN doctors

C6_RoleOwnership ==
    /\ [](/\ \A i \in DOMAIN appointments : C6_Refs(appointments[i])
          /\ \A s \in Slots : req[s].pc # "idle" =>
                C6_Refs([patient_id |-> req[s].current_user,
                         doctor_id |-> req[s].doctor_id]))
    /\ [][/\ \A s \in Slots :
               (req[s].pc = "idle" /\ req'[s].pc # "idle")
               => /\ req'[s].doctor_id \in DOMAIN doctors
                  /\ doctors[req'[s].doctor_id].is_available
          /\ \A i \in DOMAIN appointments' :
               i \notin DOMAIN appointments
               => \E s \in Slots :
                     /\ req[s].pc = "book_insert"
                     /\ req'[s].pc = "idle"
                     /\ appointments'[i].patient_id = req[s].current_user
                     /\ appointments'[i].doctor_id = req[s].doctor_id
        ]_vars

\* C6 witness: an appointment is in the ledger whose doctor has since been
\* made unavailable.
C6_Witness ==
    /\ last.op = "book"
    /\ last.code = 200
    /\ \E i \in DOMAIN appointments :
          /\ last.result = <<i>>
          /\ users[appointments[i].patient_id].user_type = "patient"
          /\ ~doctors[appointments[i].doctor_id].is_available

\* C7: access gate: book (in any request slot) by a user who is not a
\* patient, create-doctor by a user who is not an admin and analyze-symptoms
\* by a user who is neither patient nor admin return 403 and change no stored
\* record, whatever the other inputs are (an unknown doctor_id included); an
\* admin's create-doctor succeeds and a patient's or admin's
\* analyze-symptoms goes on to its doctors queries.
C7_AccessGate ==
    [][/\ \A u \in UserIds :
            users[u].user_type # "patient"
            => \A s \in Slots, d \in DoctorIdInputs, sym \in SymptomInputs :
                  BookBegin(s, u, d, "T1", sym)
                  => /\ last' = Response("book", u, d, 403, <<>>)
                     /\ UNCHANGED <<users, doctors, appointments, req>>
       /\ \A u \in UserIds, user_id \in UserIdInputs :
            CreateDoctor(u, user_id, {GeneralMedicine})
            => IF users[u].user_type # "admin"
               THEN /\ last' = Response("create_doctor", u, user_id, 403, <<>>)
                    /\ UNCHANGED <<users, doctors, appointments, req>>
               ELSE last'.code = 200
       /\ \A u \in UserIds :
            \A outcome \in {LlmRaises, LlmReturns(BareJson)} :
               AnalyzeSymptoms(u, outcome)
               => IF users[u].user_type \notin {"patient", "admin"}
                  THEN /\ last' = Response("analyze", u, 0, 403, <<>>)
                       /\ UNCHANGED <<users, doctors, appointments, req, tri>>
                  ELSE /\ tri'.pc # "idle"
                       /\ tri'.current_user = u
                       /\ last' = last
      ]_vars

\* C7 witness: a doctor-role user has just been refused with 403 on a book
\* for a doctor_id that is not in the directory (a patient would get 404).
C7_Witness ==
    /\ last.op = "book"
    /\ last.code = 403
    /\ users[last.current_user].user_type = "doctor"
    /\ last.id \notin DOMAIN doctors
    /\ Len(appointments) > 0

\* C8: list visibility: the list returned to a patient holds only
\* appointments whose patient_id is that patient; the list returned to a
\* doctor holds only appointments of one Doctor record, whose user_id is that
\* doctor, and is the empty list (status 200) when no Doctor record has that
\* user_id.
C8_ListVisibility ==
    last.op = "list" =>
        LET u == last.current_user
            r == last.result
        IN  /\ last.code = 200
            /\ \A k \in DOMAIN r : r[k] \in DOMAIN appointments
            /\ users[u].user_type = "patient"
                 => \A k \in DOMAIN r : appointments[r[k]].patient_id = u
            /\ users[u].user_type = "doctor"
                 => /\ \A k \in DOMAIN r :
                          /\ appointments[r[k]].doctor_id \in DOMAIN doctors
                          /\ doctors[appointments[r[k]].doctor_id].user_id = u
                    /\ \A k, l \in DOMAIN r :
                          appointments[r[k]].doctor_id = appointments[r[l]].doctor_id
                    /\ (\A d \in DOMAIN doctors : doctors[d].user_id # u) => r = <<>>

\* C8 witness: a doctor has been returned a non-empty list while the ledger
\* holds an appointment of a Doctor record that is not theirs.
C8_Witness ==
    /\ last.op = "list"
    /\ users[last.current_user].user_type = "doctor"
    /\ last.result # <<>>
    /\ \E i \in DOMAIN appointments :
          /\ doctors[appointments[i].doctor_id].user_id # last.current_user
          /\ \A k \in DOMAIN last.result : last.result[k] # i

\* C9: update permission policy, on a request to cancel an existing
\* appointment: a patient succeeds exactly when the appointment's patient_id is theirs; a doctor
\* succeeds only on an appointment whose Doctor record has their user_id, is
\* refused when no Doctor record has it, and succeeds when their only Doctor
\* record is the appointment's; an admin always succeeds; the result is 200
\* or 403, and on 403 the ledger is unchanged.
C9_UpdatePermission ==
    [][\A u \in UserIds, id \in DOMAIN appointments :
         UpdateAppointment(u, id, None, "cancelled", None)
         => LET a == appointments[id]
                owned == {d \in DOMAIN doctors : doctors[d].user_id = u}
            IN  /\ last'.op = "update"
                /\ last'.code \in {200, 403}
                /\ users[u].user_type = "patient"
                     => (last'.code = 200 <=> a.patient_id = u)
                /\ users[u].user_type = "doctor"
                     => /\ last'.code = 200 => a.doctor_id \in owned
                        /\ owned = {} => last'.code = 403
                        /\ owned = {a.doctor_id} => last'.code = 200
                /\ users[u].user_type = "admin" => last'.code = 200
                /\ last'.code = 403 => appointments' = appointments
      ]_vars

\* C9 witness: a patient has just been refused with 403 on an existing,
\* still scheduled appointment of another patient.
C9_Witness ==
    /\ last.op = "update"
    /\ last.code = 403
    /\ users[last.current_user].user_type = "patient"
    /\ last.id \in DOMAIN appointments
    /\ appointments[last.id].patient_id # last.current_user
    /\ appointments[last.id].status = "scheduled"

\* C10: an update request (here a cancellation) on an appointment id that
\* is not in the ledger returns 404 for every requesting user and changes no appointment (never 403).
C10_UpdateNotFound ==
    [][\A u \in UserIds, id \in ApptIdInputs \ DOMAIN appointments :
         UpdateAppointment(u, id, None, "cancelled", None)
         => /\ last' = Response("update", u, id, 404, <<>>)
            /\ appointments' = appointments
      ]_vars

\* C10 witness: a doctor-role user without a Doctor record has just got 404
\* on an id that is not in the non-empty ledger.
C10_Witness ==
    /\ last.op = "update"
    /\ last.code = 404
    /\ users[last.current_user].user_type = "doctor"
    /\ \A d \in DOMAIN doctors : doctors[d].user_id # last.current_user
    /\ last.id \notin DOMAIN appointments
    /\ Len(appointments) > 0

\* C11: partial update: a successful update of appointment id sets
\* appointment_date, status and notes to the request's value where the request
\* has one and keeps the previous value where it has None (notes that are set
\* are never back to None); patient_id, doctor_id, symptoms and created_at
\* of the appointment, its position (id) and every other appointment are
\* unchanged.
C11_PartialUpdate ==
    [][\A u \in {1, 2}, id \in DOMAIN appointments, date \in {None, "T2"},
          status \in {None, "cancelled", "scheduled"}, notes \in NotesInputs :
         (UpdateAppointment(u, id, date, status, notes) /\ last'.code = 200)
         => LET old == appointments[id]
                new == appointments'[id]
            IN  /\ DOMAIN appointments' = DOMAIN appointments
                /\ new.appointment_date
                      = (IF date = None THEN old.appointment_date ELSE date)
                /\ new.status = (IF status = None THEN old.status ELSE status)
                /\ new.notes = (IF notes = None THEN old.notes ELSE notes)
                /\ old.notes # None => new.notes # None
                /\ new.patient_id = old.patient_id
                /\ new.doctor_id = old.doctor_id
                /\ new.symptoms = old.symptoms
                /\ new.created_at = old.created_at
                /\ \A j \in DOMAIN appointments :
                      j # id => appointments'[j] = appointments[j]
      ]_vars

\* C11 witness: an update that carried a status only has just succeeded on
\* the first of two appointments: its status is the new one while its moved
\* date and its notes are those of an earlier update, and the second
\* appointment is as booked.
C11_Witness ==
    /\ last.op = "update"
    /\ last.code = 200
    /\ last.id = 1
    /\ Len(appointments) = 2
    /\ appointments[1].status = "cancelled"
    /\ appointments[1].notes = "n1"
    /\ appointments[1].appointment_date = "T2"
    /\ appointments[2].status = "scheduled"
    /\ appointments[2].notes = None

\* C12: update performs no conflict re-check: the owner's update that moves
\* an appointment to a time at which another non-cancelled appointment of the
\* same doctor stands, or that sets a cancelled appointment to scheduled while
\* another non-cancelled appointment holds its (doctor, time), returns 200
\* and is applied; no update returns 400.
C12_NoConflictRecheck ==
    [][\A id \in DOMAIN appointments, status \in {None, "cancelled", "scheduled"},
          notes \in NotesInputs :
         LET old == appointments[id]
             held(t) == \E j \in DOMAIN appointments :
                           /\ j # id
                           /\ appointments[j].doctor_id = old.doctor_id
                           /\ appointments[j].appointment_date = t
                           /\ appointments[j].status # "cancelled"
         IN  /\ (held("T2") /\ UpdateAppointment(1, id, "T2", status, notes))
                  => /\ last'.code = 200
                     /\ appointments'[id].appointment_date = "T2"
             /\ (/\ old.status = "cancelled"
                 /\ status = "scheduled"
                 /\ held(old.appointment_date)
                 /\ UpdateAppointment(1, id, None, status, notes))
                  => /\ last'.code = 200
                     /\ appointments'[id].status = "scheduled"
                     /\ appointments'[id].appointment_date = old.appointment_date
             /\ \A u \in {1, 2}, date \in {None, "T2"} :
                   UpdateAppointment(u, id, date, status, notes)
                   => last'.code \in {200, 403}
      ]_vars

\* C12 witness: an update has just succeeded on one of two scheduled
\* appointments of the same doctor that now stand at the same time.
C12_Witness ==
    /\ last.op = "update"
    /\ last.code = 200
    /\ Len(appointments) = 2
    /\ appointments[1].doctor_id = appointments[2].doctor_id
    /\ appointments[1].appointment_date = appointments[2].appointment_date
    /\ appointments[1].status = "scheduled"
    /\ appointments[2].status = "scheduled"

\* C13: no status transition graph: whatever the status of an appointment,
\* an update by its owner or by the administrator that sets status to any of
\* scheduled, completed, cancelled, rescheduled returns 200 and leaves the
\* appointment with that status (cancelled and completed are not terminal,
\* and no number of earlier updates matters).
C13_AnyStatusTransition ==
    [][\A u \in {1, 4}, id \in DOMAIN appointments, status \in Statuses :
         UpdateAppointment(u, id, None, status, None)
         => /\ last'.code = 200
            /\ appointments'[id].status = status
      ]_vars

\* C13 witness: two appointments stand at the same doctor and time, so the
\* first was cancelled when the second was booked; an update has just set
\* the first to completed, and the second has been rescheduled.
C13_Witness ==
    /\ last.op = "update"
    /\ last.code = 200
    /\ last.id = 1
    /\ Len(appointments) = 2
    /\ appointments[1].appointment_date = appointments[2].appointment_date
    /\ appointments[1].doctor_id = appointments[2].doctor_id
    /\ appointments[1].status = "completed"
    /\ appointments[2].status = "rescheduled"

\* C14: analyze always returns a result: whatever the call of the language
\* model does (it raises, it returns text that is not JSON, it returns JSON
\* of any shape), every response to the patient's analysis has status 200,
\* each step of the analysis goes on to its next database call or to that
\* response, and an analysis that has begun ends.
C14_AlwaysResult ==
    /\ [](last.op = "analyze" =>
            /\ last.code = 200
            /\ last.result.analysis # None
            /\ last.result.urgency_level # None)
    /\ [][/\ \A outcome \in LlmOutcomes :
               AnalyzeSymptoms(1, outcome)
               => \/ tri'.pc \in {"match", "basic"} /\ last' = last
                  \/ tri'.pc = "idle" /\ last'.op = "analyze" /\ last'.code = 200
          /\ (tri.pc # "idle" /\ tri' # tri)
               => \/ tri'.pc = "match" /\ tri.pc = "match" /\ tri'.k = tri.k + 1
                  \/ tri'.pc = "basic" /\ tri.pc = "match"
                  \/ tri'.pc = "idle" /\ last'.op = "analyze" /\ last'.code = 200
        ]_vars
    /\ (tri.pc # "idle" ~> tri.pc = "idle")

\* C14 witness: the fixed result of the except branch has been returned, with
\* a recommendation.
C14_Witness ==
    /\ last.op = "analyze"
    /\ last.code = 200
    /\ last.result.analysis = BasicAnalysis
    /\ last.result.recommended_doctors # <<>>
    /\ tri.pc = "idle"

\* C15: degraded result on parse failure: an answer that is not JSON sends
\* the analysis through the loop over specialties with the single specialty
\* General Medicine, and its response has the raw text as analysis,
\* specialties <<General Medicine>>, urgency Medium and the disclaimer as
\* notes; its recommendations are those of the doctors query made for
\* General Medicine: the resolvable ones among the first three available
\* doctors specialised in it, each with match_reason "Specialized in General
\* Medicine" and urgency Medium.
C15_DegradedOnParseFailure ==
    [][/\ AnalyzeSymptoms(1, LlmReturns(PlainText))
            => /\ tri'.pc = "match"
               /\ tri'.k = 1
               /\ tri'.recommended_doctors = <<>>
               /\ tri'.ai_data.items.analysis.v = PlainText
               /\ last' = last
       /\ (/\ tri.pc = "match"
           /\ "analysis" \in DOMAIN tri.ai_data.items
           /\ tri.ai_data.items.analysis.v = PlainText
           /\ MatchSpecialty)
            => LET result == last'.result
                   recs == result.recommended_doctors
                   matches(d) == /\ GeneralMedicine \in doctors[d].specializations
                                 /\ doctors[d].is_available
                   first3 == {d \in DOMAIN doctors :
                                /\ matches(d)
                                /\ Cardinality({e \in 1..d : matches(e)}) <= 3}
               IN  /\ tri'.pc = "idle"
                   /\ last'.op = "analyze"
                   /\ last'.code = 200
                   /\ result.analysis = PlainText
                   /\ result.recommended_specialties = <<GeneralMedicine>>
                   /\ result.urgency_level = "Medium"
                   /\ result.additional_notes = Disclaimer
                   /\ {recs[i].doctor.id : i \in DOMAIN recs}
                         = {d \in first3 : doctors[d].user_id \in DOMAIN users}
                   /\ \A i \in DOMAIN recs :
                         /\ recs[i].match_reason = "Specialized in General Medicine"
                         /\ recs[i].urgency_level = "Medium"
                   /\ \A i, k \in DOMAIN recs :
                         i < k => recs[i].doctor.id < recs[k].doctor.id
      ]_vars

\* C15 witness: the raw text has come back as the analysis, with two
\* recommendations, while a fourth available General Medicine doctor is in
\* the directory.
C15_Witness ==
    /\ last.op = "analyze"
    /\ last.code = 200
    /\ last.result.analysis = PlainText
    /\ Len(last.result.recommended_doctors) = 2
    /\ Cardinality({d \in DOMAIN doctors :
                        /\ GeneralMedicine \in doctors[d].specializations
                        /\ doctors[d].is_available}) >= 4

\* C16: basic result on failure of the call: when the call of the language
\* model raises, the analysis goes to the except branch, whose response has
\* specialties <<General Medicine, Internal Medicine>>, urgency Medium, the
\* fixed analysis and notes, and at most 5 recommendations, each for a doctor
\* who is available and specialised in General Medicine or Internal Medicine,
\* each with match_reason "General consultation" and urgency Medium, no
\* doctor twice.
C16_BasicOnCallFailure ==
    [][/\ AnalyzeSymptoms(1, LlmRaises)
            => /\ tri'.pc = "basic"
               /\ tri'.current_user = 1
               /\ last' = last
       /\ BasicMatching
            => LET result == last'.result
                   recs == result.recommended_doctors
               IN  /\ tri'.pc = "idle"
                   /\ last'.op = "analyze"
                   /\ last'.code = 200
                   /\ last'.current_user = tri.current_user
                   /\ result.recommended_specialties
                         = <<"General Medicine", "Internal Medicine">>
                   /\ result.urgency_level = "Medium"
                   /\ result.analysis
                         = "Basic symptom analysis - AI service temporarily unavailable"
                   /\ result.additional_notes
                         = "Please consult with a healthcare professional for proper diagnosis."
                   /\ Len(recs) <= 5
                   /\ \A i \in DOMAIN recs :
                         /\ recs[i].doctor.id \in DOMAIN doctors
                         /\ doctors[recs[i].doctor.id].is_available
                         /\ recs[i].doctor.is_available
                         /\ doctors[recs[i].doctor.id].specializations
                               \cap {"General Medicine", "Internal Medicine"} # {}
                         /\ recs[i].match_reason = "General consultation"
                         /\ recs[i].urgency_level = "Medium"
                   /\ \A i, k \in DOMAIN recs :
                         i # k => recs[i].doctor.id # recs[k].doctor.id
      ]_vars

\* C16 witness: the basic result has come back with five recommendations
\* while a sixth available, resolvable doctor of Internal Medicine is in the
\* directory, and an unavailable General Medicine doctor as well.
C16_Witness ==
    /\ last.op = "analyze"
    /\ last.code = 200
    /\ last.result.recommended_specialties = BasicSpecialties
    /\ Len(last.result.recommended_doctors) = 5
    /\ \E d \in DOMAIN doctors :
          /\ doctors[d].is_available
          /\ InternalMedicine \in doctors[d].specializations
          /\ doctors[d].user_id \in DOMAIN users
          /\ \A i \in DOMAIN last.result.recommended_doctors :
                last.result.recommended_doctors[i].doctor.id # d
    /\ \E d \in DOMAIN doctors :
          /\ ~doctors[d].is_available
          /\ GeneralMedicine \in doctors[d].specializations

\* C17: doctor matching on the normal path: a round of the loop made for the
\* k-th specialty S of the model's list keeps the recommendations of the
\* earlier specialties in front and appends at most 3 recommendations, each
\* for a doctor who is available and specialised in S, with match_reason
\* "Specialized in S" and the model's urgency level, Medium when the model
\* gave none; the response lists the model's specialties.
C17_MatchingNormalPath ==
    [][(tri.pc = "match" /\ MatchSpecialty /\ tri'.pc # "basic")
         => LET items == tri.ai_data.items
                S == items.recommended_specialties.v[tri.k]
                urgency == IF "urgency_level" \in DOMAIN items
                           THEN items.urgency_level.v ELSE "Medium"
                before == tri.recommended_doctors
                after == IF tri'.pc = "match"
                         THEN tri'.recommended_doctors
                         ELSE last'.result.recommended_doctors
            IN  /\ Len(after) >= Len(before)
                /\ Len(after) <= Len(before) + 3
                /\ SubSeq(after, 1, Len(before)) = before
                /\ \A i \in DOMAIN after :
                      i > Len(before)
                      => /\ after[i].doctor.id \in DOMAIN doctors
                         /\ doctors[after[i].doctor.id].is_available
                         /\ after[i].doctor.is_available
                         /\ S \in doctors[after[i].doctor.id].specializations
                         /\ after[i].match_reason = "Specialized in " \o S
                         /\ after[i].urgency_level = urgency
                /\ tri'.pc = "match" => tri'.k = tri.k + 1
                /\ tri'.pc = "idle"
                      => /\ tri.k = Len(items.recommended_specialties.v)
                         /\ last'.result.recommended_specialties
                               = items.recommended_specialties.v
                         /\ last'.result.urgency_level = urgency
      ]_vars

\* C17 witness: the response to an answer naming Cardiology and General
\* Medicine has three recommendations for each, in that order, with urgency
\* High, while a fourth available, resolvable General Medicine doctor is
\* left out.
C17_Witness ==
    /\ last.op = "analyze"
    /\ last.code = 200
    /\ last.result.recommended_specialties = <<Cardiology, GeneralMedicine>>
    /\ Len(last.result.recommended_doctors) = 6
    /\ \A i \in 1..3 :
          /\ last.result.recommended_doctors[i].match_reason
                = "Specialized in Cardiology"
          /\ last.result.recommended_doctors[i].urgency_level = "High"
    /\ \A i \in 4..6 :
          last.result.recommended_doctors[i].match_reason
              = "Specialized in General Medicine"
    /\ \E d \in DOMAIN doctors :
          /\ doctors[d].is_available
          /\ GeneralMedicine \in doctors[d].specializations
          /\ doctors[d].user_id \in DOMAIN users
          /\ \A i \in 4..6 : last.result.recommended_doctors[i].doctor.id # d

\* C18: recommendations are not deduplicated across specialties: a round of
\* the loop made for specialty S recommends every doctor who is available,
\* resolvable, specialised in S and among the first 3 such matches, also one
\* who is already recommended for an earlier specialty, so that this doctor
\* is listed once more.
C18_NoDeduplication ==
    [][(tri.pc = "match" /\ MatchSpecialty /\ tri'.pc # "basic")
         => LET S == tri.ai_data.items.recommended_specialties.v[tri.k]
                matches(d) == /\ S \in doctors[d].specializations
                              /\ doctors[d].is_available
                before == tri.recommended_doctors
                after == IF tri'.pc = "match"
                         THEN tri'.recommended_doctors
                         ELSE last'.result.recommended_doctors
                count(recs, d) ==
                    Cardinality({i \in DOMAIN recs : recs[i].doctor.id = d})
            IN  \A d \in DOMAIN doctors :
                   (/\ matches(d)
                    /\ Cardinality({e \in 1..d : matches(e)}) <= 3
                    /\ doctors[d].user_id \in DOMAIN users)
                   => /\ count(after, d) = count(before, d) + 1
                      /\ \E i \in DOMAIN after :
                            /\ i > Len(before)
                            /\ after[i].doctor.id = d
                            /\ after[i].match_reason = "Specialized in " \o S
      ]_vars

\* C18 witness: a response lists one doctor twice, for Cardiology and for
\* General Medicine.
C18_Witness ==
    /\ last.op = "analyze"
    /\ last.code = 200
    /\ \E i, k \in DOMAIN last.result.recommended_doctors :
          /\ i < k
          /\ last.result.recommended_doctors[i].doctor.id
                = last.result.recommended_doctors[k].doctor.id
          /\ last.result.recommended_doctors[i].match_reason
                = "Specialized in Cardiology"
          /\ last.result.recommended_doctors[k].match_reason
                = "Specialized in General Medicine"

\* C19: silent omission in list: a list answers 200 whatever references are
\* broken; no appointment whose patient, Doctor record or doctor's user does
\* not resolve is in the result, and every other appointment visible to the
\* caller (the patient's own, those of the doctor's record, all for the
\* other roles) is in it.
C19_SilentOmission ==
    last.op = "list" =>
        LET u == last.current_user
            r == last.result
            listed == {r[k] : k \in DOMAIN r}
            resolves(i) ==
                /\ appointments[i].patient_id \in DOMAIN users
                /\ appointments[i].doctor_id \in DOMAIN doctors
                /\ doctors[appointments[i].doctor_id].user_id \in DOMAIN users
            visible(i) ==
                CASE users[u].user_type = "patient" -> appointments[i].patient_id = u
                  [] users[u].user_type = "doctor" ->
                       /\ appointments[i].doctor_id \in DOMAIN doctors
                       /\ doctors[appointments[i].doctor_id].user_id = u
                  [] OTHER -> TRUE
        IN  /\ last.code = 200
            /\ \A i \in listed : i \in DOMAIN appointments /\ resolves(i)
            /\ \A i \in DOMAIN appointments :
                  (visible(i) /\ resolves(i)) => i \in listed

\* C20: a Doctor record whose user_id is no user's id is in no
\* recommendation, of a running analysis or of a response, on the loop over
\* specialties and in the except branch alike, and every response of an
\* analysis made over a directory holding such a record has status 200.
C20_UnresolvedDoctorSkipped ==
    LET resolved(recs) ==
            \A i \in DOMAIN recs :
                /\ recs[i].doctor.id \in DOMAIN doctors
                /\ doctors[recs[i].doctor.id].user_id \in DOMAIN users
    IN  /\ tri.pc = "match" => resolved(tri.recommended_doctors)
        /\ last.op = "analyze"
             => /\ last.code = 200
                /\ resolved(last.result.recommended_doctors)

\* C20 witness: a response recommends for General Medicine the first and the
\* third available doctor specialised in it; the second one, whose user_id
\* is no user's id, is left out.
C20_Witness ==
    /\ last.op = "analyze"
    /\ last.code = 200
    /\ last.result.recommended_specialties = <<GeneralMedicine>>
    /\ Len(last.result.recommended_doctors) = 2
    /\ \E d \in DOMAIN doctors :
          /\ doctors[d].user_id \notin DOMAIN users
          /\ doctors[d].is_available
          /\ GeneralMedicine \in doctors[d].specializations
          /\ last.result.recommended_doctors[1].doctor.id < d
          /\ d < last.result.recommended_doctors[2].doctor.id

\* C21: email uniqueness: no two user records share an email, and a register
\* request whose email belongs to a stored user when its users query runs is
\* answered 400 and adds no user.
C21_EmailUniqueness ==
    /\ [](\A i, j \in DOMAIN users : i # j => users[i].email # users[j].email)
    /\ [][\A s \in Slots, email \in EmailInputs, password \in PasswordInputs,
           user_type \in UserTypeInputs :
          (EmailTaken(email) /\ RegisterBegin(s, email, password, user_type))
          => /\ last' = Response("register", 0, 0, 400, <<>>)
             /\ users' = users
             /\ req' = req
       ]_vars

\* C22: register/login round trip: once register(email, password) has
\* returned a user id, a login with that email and password is answered 200
\* with a token that the bearer-token check resolves to that user id; a login
\* with an email and password that no register was made with is answered
\* 401.
C22_RegisterLoginRoundTrip ==
    [][\A email \in EmailInputs, password \in PasswordInputs :
         Login(email, password)
         => LET registered == {i \in DOMAIN users :
                                  /\ users[i].email = email
                                  /\ users[i].password_hash = HashPassword(password)}
            IN  /\ last'.op = "login"
                /\ registered = {} => last'.code = 401
                /\ \A i \in registered :
                      /\ last'.code = 200
                      /\ GetCurrentUser(last'.result[1]) = i
      ]_vars

\* C23: the doctor-to-user link is 1:1: the user_id of every Doctor record
\* is the id of a stored user of role doctor, and no two Doctor records have
\* the same user_id.
C23_DoctorUserLink ==
    \A d \in DOMAIN doctors :
        /\ doctors[d].user_id \in DOMAIN users
        /\ users[doctors[d].user_id].user_type = "doctor"
        /\ \A e \in DOMAIN doctors : e # d => doctors[e].user_id # doctors[d].user_id

\* C24: postcondition of a successful booking: a book request of a patient
\* for a doctor who is in the directory and available goes on to the conflict
\* query; when no non-cancelled appointment of that doctor stands at the
\* requested time the request goes on to the insert, which answers 200 with
\* an appointment id that no appointment had and adds exactly one record:
\* status scheduled, patient_id the caller, doctor_id, date and symptoms as
\* requested, notes None.  None of the three steps changes an existing
\* appointment, and no step of any operation removes one.
C24_BookPostcondition ==
    [][/\ \A i \in DOMAIN appointments : i \in DOMAIN appointments'
       /\ \A s \in Slots, d \in DOMAIN doctors, t \in Times, sym \in SymptomInputs :
             (doctors[d].is_available /\ BookBegin(s, 1, d, t, sym))
             => /\ req'[s] = [pc |-> "book_conflict", current_user |-> 1,
                              doctor_id |-> d, appointment_date |-> t,
                              symptoms |-> sym]
                /\ appointments' = appointments
                /\ last' = last
       /\ \A s \in Slots :
             (BookConflict(s) /\ Holders(req[s].doctor_id, req[s].appointment_date) = {})
             => /\ req'[s] = [req[s] EXCEPT !.pc = "book_insert"]
                /\ appointments' = appointments
       /\ \A s \in Slots :
             BookInsert(s)
             => LET id == last'.result[1]
                IN  /\ last' = Response("book", req[s].current_user, req[s].doctor_id,
                                        200, <<id>>)
                    /\ id \notin DOMAIN appointments
                    /\ DOMAIN appointments' = DOMAIN appointments \cup {id}
                    /\ appointments'[id].status = "scheduled"
                    /\ appointments'[id].patient_id = req[s].current_user
                    /\ appointments'[id].doctor_id = req[s].doctor_id
                    /\ appointments'[id].appointment_date = req[s].appointment_date
                    /\ appointments'[id].symptoms = req[s].symptoms
                    /\ appointments'[id].notes = None
                    /\ \A i \in DOMAIN appointments : appointments'[i] = appointments[i]
      ]_vars

\* C24 witness: a patient's book of the second doctor has just been
\* answered 200 with id 2, the new record as requested and without notes,
\* while the first appointment, with the first doctor, stands as booked.
C24_Witness ==
    /\ last.op = "book"
    /\ last.code = 200
    /\ last.result = <<2>>
    /\ last.id = 2
    /\ Len(appointments) = 2
    /\ appointments[2].patient_id = last.current_user
    /\ appointments[2].doctor_id = 2
    /\ appointments[2].appointment_date = "T1"
    /\ appointments[2].symptoms = "cough"
    /\ appointments[2].status = "scheduled"
    /\ appointments[2].notes = None
    /\ appointments[1].doctor_id = 1
    /\ appointments[1].status = "scheduled"
    /\ appointments[1].notes = None

\* C25: only an admin has unrestricted access: a list returned to a user
\* whose role is not admin (patient, doctor or any other role string) holds
\* only appointments of which that user is the patient or the owner of the
\* Doctor record, and an update by such a user of an appointment of which
\* they are neither is not answered 200.
C25_Own(u, appointment) ==
    \/ appointment.patient_id = u
    \/ /\ appointment.doctor_id \in DOMAIN doctors
       /\ doctors[appointment.doctor_id].user_id = u

C25_OnlyAdminUnrestricted ==
    /\ []((last.op = "list" /\ users[last.current_user].user_type # "admin")
            => \A k \in DOMAIN last.result :
                  C25_Own(last.current_user, appointments[last.result[k]]))
    /\ [][\A u \in UserIds, id \in DOMAIN appointments :
            (/\ users[u].user_type # "admin"
             /\ ~C25_Own(u, appointments[id])
             /\ UpdateAppointment(u, id, None, "cancelled", None))
            => last'.code # 200
         ]_vars

\* C26: an answer that parses as JSON but not into the expected shape (its
\* top-level value is not an object, or recommended_specialties is not a
\* list, or analysis, urgency_level or additional_notes is not a string) is
\* never answered from the try block: the analysis goes, at once or after
\* rounds of its loop, to the except branch, whose response is the basic
\* result with specialties <<General Medicine, Internal Medicine>> and the
\* fixed analysis string, not the model's text.
C26_Misshapen(value) ==
    \/ value.t # "object"
    \/ /\ value.t = "object"
       /\ \/ /\ "recommended_specialties" \in DOMAIN value.items
             /\ value.items.recommended_specialties.t # "list"
          \/ \E key \in {"analysis", "urgency_level", "additional_notes"} :
                /\ key \in DOMAIN value.items
                /\ value.items[key].t # "str"

C26_BasicOnWrongShape ==
    [][/\ \A text \in JsonTexts :
            (C26_Misshapen(JsonLoads(text).value)
             /\ AnalyzeSymptoms(1, LlmReturns(text)))
            => /\ last' = last
               /\ \/ tri' = TriBasic(1)
                  \/ /\ tri'.pc = "match"
                     /\ tri'.ai_data = JsonLoads(text).value
       /\ (tri.pc = "match" /\ C26_Misshapen(tri.ai_data) /\ MatchSpecialty)
            => /\ last' = last
               /\ \/ tri' = TriBasic(tri.current_user)
                  \/ /\ tri'.pc = "match"
                     /\ tri'.ai_data = tri.ai_data
                     /\ tri.k < Len(tri.ai_data.items.recommended_specialties.v)
       /\ (tri.pc = "basic" /\ tri' # tri)
            => /\ tri' = TriIdle
               /\ last'.op = "analyze"
               /\ last'.code = 200
               /\ last'.result.recommended_specialties
                     = <<"General Medicine", "Internal Medicine">>
               /\ last'.result.analysis = BasicAnalysis
               /\ last'.result.analysis \notin LlmTexts
      ]_vars

\* C26 witness: every answer given parses as JSON, and the basic result has
\* come back, with a recommendation.
C26_Witness ==
    /\ tri = TriIdle
    /\ last.op = "analyze"
    /\ last.code = 200
    /\ last.result.recommended_specialties = BasicSpecialties
    /\ last.result.analysis = BasicAnalysis
    /\ Len(last.result.recommended_doctors) >= 1

\* C27: the cap is applied before the join of Doctor and User: a round of
\* the loop for specialty S takes the first 3 available doctors specialised
\* in S, in the order of the directory, and recommends those of them whose
\* user is found, so it adds 3 recommendations less one for each of the 3
\* whose user is not found, however many resolvable doctors follow; the
\* except branch does the same with the first 5 available doctors of General
\* Medicine or Internal Medicine.
C27_Taken(matches(_), limit) ==
    {d \in DOMAIN doctors :
        /\ matches(d)
        /\ Cardinality({e \in 1..d : matches(e)}) <= limit}

C27_Kept(taken) == {d \in taken : doctors[d].user_id \in DOMAIN users}

C27_CapBeforeJoin ==
    [][/\ (tri.pc = "match" /\ MatchSpecialty /\ tri'.pc # "basic")
            => LET S == tri.ai_data.items.recommended_specialties.v[tri.k]
                   matches(d) == /\ S \in doctors[d].specializations
                                 /\ doctors[d].is_available
                   taken == C27_Taken(matches, 3)
                   before == tri.recommended_doctors
                   after == IF tri'.pc = "match"
                            THEN tri'.recommended_doctors
                            ELSE last'.result.recommended_doctors
                   added == SubSeq(after, Len(before) + 1, Len(after))
               IN  /\ Len(added) = Cardinality(C27_Kept(taken))
                   /\ Len(added) = Cardinality(taken)
                                      - Cardinality(taken \ C27_Kept(taken))
                   /\ {added[i].doctor.id : i \in DOMAIN added} = C27_Kept(taken)
       /\ BasicMatching
            => LET matches(d) == /\ doctors[d].specializations
                                      \cap {GeneralMedicine, InternalMedicine} # {}
                                 /\ doctors[d].is_available
                   taken == C27_Taken(matches, 5)
                   added == last'.result.recommended_doctors
               IN  /\ Len(added) = Cardinality(C27_Kept(taken))
                   /\ {added[i].doctor.id : i \in DOMAIN added} = C27_Kept(taken)
      ]_vars

\* C27 witness: the response to an answer naming Cardiology twice has two
\* recommendations for each round, while three available Cardiology doctors
\* with a user are in the directory: the third of them comes after a doctor
\* without a user who took a place among the first three.
C27_Witness ==
    /\ tri = TriIdle
    /\ last.op = "analyze"
    /\ last.code = 200
    /\ last.result.recommended_specialties = <<Cardiology, Cardiology>>
    /\ Len(last.result.recommended_doctors) = 4
    /\ Cardinality({d \in DOMAIN doctors :
                        /\ doctors[d].is_available
                        /\ Cardiology \in doctors[d].specializations
                        /\ doctors[d].user_id \in DOMAIN users}) >= 3
    /\ \E d, e \in DOMAIN doctors :
          /\ d < e
          /\ doctors[d].user_id \notin DOMAIN users
          /\ doctors[d].is_available
          /\ Cardiology \in doctors[d].specializations
          /\ doctors[e].user_id \in DOMAIN users
          /\ doctors[e].is_available
          /\ Cardiology \in doctors[e].specializations
          /\ \A i \in DOMAIN last.result.recommended_doctors :
                last.result.recommended_doctors[i].doctor.id # e

====
